---- MODULE Spec2Model ----
(***************************************************************************)
(* Model of the Bithumb trading bot: trader/utils.py (retry, tick table,   *)
(* rounding, fee-adjusted PnL), trader/strategy.py (perform_sell,          *)
(* perform_buy, trade_once) and the scheduling loop of run.py.             *)
(*                                                                         *)
(* Number representation.  The program computes with Python floats (IEEE   *)
(* binary64), and so does the model: every +, -, *, / and round() of the   *)
(* program is the correctly rounded operation on floats [m, e] standing    *)
(* for m * 2^e.  The values the program passes from one step to the next   *)
(* are floats nearest to a short decimal, and the state holds the decimal: *)
(*   - prices and KRW amounts are integers counting 1/PriceScale KRW       *)
(*     (0.001 KRW, the smallest tick of the table);                        *)
(*   - coin quantities are counted in 10^-VOLUME_DECIMALS coins, as        *)
(*     naturals written as sequences of decimal digits, least significant  *)
(*     first ("big naturals"), since they do not fit TLC's 32-bit integers;*)
(*   - the exchange's own arithmetic (the cost of a fill) and the          *)
(*     properties that state a bound in the reals use big naturals.        *)
(***************************************************************************)
EXTENDS Integers, Sequences, FiniteSets, TLC

----------------------------------------------------------------------------
(* Big naturals: <<d1, d2, ...>> is d1 + 10*d2 + ...; <<>> is 0.           *)

RECURSIVE BFromInt(_)
BFromInt(n) == IF n = 0 THEN <<>> ELSE <<n % 10>> \o BFromInt(n \div 10)

RECURSIVE BToInt(_)
BToInt(a) == IF a = <<>> THEN 0 ELSE a[1] + 10 * BToInt(Tail(a))

RECURSIVE BNorm(_)
BNorm(a) ==
    IF a = <<>> THEN <<>>
    ELSE IF a[Len(a)] = 0 THEN BNorm(SubSeq(a, 1, Len(a) - 1))
    ELSE a

RECURSIVE BAddC(_, _, _)
BAddC(a, b, c) ==
    IF a = <<>> /\ b = <<>> THEN (IF c = 0 THEN <<>> ELSE <<c>>)
    ELSE LET x == IF a = <<>> THEN 0 ELSE a[1]
             y == IF b = <<>> THEN 0 ELSE b[1]
             s == x + y + c
         IN  <<s % 10>> \o BAddC(IF a = <<>> THEN <<>> ELSE Tail(a),
                                 IF b = <<>> THEN <<>> ELSE Tail(b),
                                 s \div 10)

BAdd(a, b) == BAddC(a, b, 0)

(* a * k for a digit k in 0..9 *)
RECURSIVE BMulDigitC(_, _, _)
BMulDigitC(a, k, c) ==
    IF a = <<>> THEN (IF c = 0 THEN <<>> ELSE <<c>>)
    ELSE LET s == a[1] * k + c
         IN  <<s % 10>> \o BMulDigitC(Tail(a), k, s \div 10)

RECURSIVE BMul(_, _)
BMul(a, b) ==
    IF a = <<>> \/ b = <<>> THEN <<>>
    ELSE BNorm(BAdd(BMulDigitC(a, b[1], 0), <<0>> \o BMul(a, Tail(b))))

(* a * 10^n *)
RECURSIVE BShift(_, _)
BShift(a, n) == IF n = 0 \/ a = <<>> THEN a ELSE BShift(<<0>> \o a, n - 1)

(* -1, 0, 1 as a < b, a = b, a > b (both normalised) *)
RECURSIVE BCmpSame(_, _, _)
BCmpSame(a, b, i) ==
    IF i = 0 THEN 0
    ELSE IF a[i] < b[i] THEN -1
    ELSE IF a[i] > b[i] THEN 1
    ELSE BCmpSame(a, b, i - 1)

BCmp(a, b) ==
    IF Len(a) < Len(b) THEN -1
    ELSE IF Len(a) > Len(b) THEN 1
    ELSE BCmpSame(a, b, Len(a))

BLt(a, b) == BCmp(a, b) < 0
BLe(a, b) == BCmp(a, b) <= 0

(* School division of a big natural by an integer p, 0 < p < 2^31 / 10:    *)
(* <<quotient (big), remainder (integer)>>.  i runs from the top digit.    *)
RECURSIVE BDivIntAt(_, _, _, _, _)
BDivIntAt(a, p, i, q, r) ==
    IF i = 0 THEN <<BNorm(q), r>>
    ELSE LET cur == r * 10 + a[i]
         IN  BDivIntAt(a, p, i - 1, <<cur \div p>> \o q, cur % p)

BDivInt(a, p) == BDivIntAt(a, p, Len(a), <<>>, 0)

(* Python's round(): the quotient of a / p rounded half to even. *)
BDivRound(a, p) ==
    LET qr == BDivInt(a, p)
        q  == qr[1]
        r  == qr[2]
        odd == q # <<>> /\ q[1] % 2 = 1
    IN  IF 2 * r > p \/ (2 * r = p /\ odd) THEN BAdd(q, <<1>>) ELSE q

----------------------------------------------------------------------------
(* Naturals in limbs of four decimal digits, least significant first, for  *)
(* the 53-bit significands of floats and their products.                   *)

LBase == 10000

RECURSIVE LFromInt(_)
LFromInt(n) == IF n = 0 THEN <<>> ELSE <<n % LBase>> \o LFromInt(n \div LBase)

RECURSIVE LNorm(_)
LNorm(a) ==
    IF a = <<>> THEN <<>>
    ELSE IF a[Len(a)] = 0 THEN LNorm(SubSeq(a, 1, Len(a) - 1))
    ELSE a

(* decimal digits to limbs and back *)
RECURSIVE LFromB(_)
LFromB(a) ==
    IF a = <<>> THEN <<>>
    ELSE IF Len(a) <= 4 THEN <<BToInt(a)>>
    ELSE <<BToInt(SubSeq(a, 1, 4))>> \o LFromB(SubSeq(a, 5, Len(a)))

RECURSIVE LToBAt(_, _)
LToBAt(a, i) ==
    IF i > Len(a) THEN <<>>
    ELSE <<a[i] % 10, (a[i] \div 10) % 10, (a[i] \div 100) % 10, a[i] \div 1000>>
             \o LToBAt(a, i + 1)

LToB(a) == BNorm(LToBAt(a, 1))

RECURSIVE LAddAt(_, _, _, _)
LAddAt(a, b, i, c) ==
    IF i > Len(a) /\ i > Len(b) THEN (IF c = 0 THEN <<>> ELSE <<c>>)
    ELSE LET s == (IF i <= Len(a) THEN a[i] ELSE 0)
                  + (IF i <= Len(b) THEN b[i] ELSE 0) + c
         IN  <<s % LBase>> \o LAddAt(a, b, i + 1, s \div LBase)

LAdd(a, b) == LAddAt(a, b, 1, 0)

(* a - b for a >= b *)
RECURSIVE LSubAt(_, _, _, _)
LSubAt(a, b, i, c) ==
    IF i > Len(a) THEN <<>>
    ELSE LET d == a[i] - (IF i <= Len(b) THEN b[i] ELSE 0) - c
         IN  <<IF d < 0 THEN d + LBase ELSE d>>
                 \o LSubAt(a, b, i + 1, IF d < 0 THEN 1 ELSE 0)

LSub(a, b) == LNorm(LSubAt(a, b, 1, 0))

(* a * k for 0 <= k < LBase *)
RECURSIVE LMulSmallAt(_, _, _, _)
LMulSmallAt(a, k, i, c) ==
    IF i > Len(a) THEN (IF c = 0 THEN <<>> ELSE <<c>>)
    ELSE LET s == a[i] * k + c
         IN  <<s % LBase>> \o LMulSmallAt(a, k, i + 1, s \div LBase)

LMulSmall(a, k) == LNorm(LMulSmallAt(a, k, 1, 0))

RECURSIVE LMulAt(_, _, _)
LMulAt(a, b, i) ==
    IF i > Len(b) THEN <<>>
    ELSE LAdd(LMulSmall(a, b[i]), <<0>> \o LMulAt(a, b, i + 1))

LMul(a, b) == LNorm(LMulAt(a, b, 1))

RECURSIVE LCmpAt(_, _, _)
LCmpAt(a, b, i) ==
    IF i = 0 THEN 0
    ELSE IF a[i] < b[i] THEN -1
    ELSE IF a[i] > b[i] THEN 1
    ELSE LCmpAt(a, b, i - 1)

LCmp(a, b) ==
    IF Len(a) < Len(b) THEN -1
    ELSE IF Len(a) > Len(b) THEN 1
    ELSE LCmpAt(a, b, Len(a))

(* The largest t in lo..hi with b * t <= cur, given b * lo <= cur. *)
RECURSIVE LQuotLimb(_, _, _, _)
LQuotLimb(cur, b, lo, hi) ==
    IF lo = hi THEN lo
    ELSE LET mid == (lo + hi + 1) \div 2
         IN  IF LCmp(LMulSmall(b, mid), cur) <= 0
             THEN LQuotLimb(cur, b, mid, hi)
             ELSE LQuotLimb(cur, b, lo, mid - 1)

(* The element of a one-element set: The({e : v \in {x}}) is e with v the  *)
(* value of x, computed once, before e.                                    *)
The(S) == CHOOSE v \in S : TRUE

(* The limbs n + 1 and n of cur as one number, for a divisor of n limbs. *)
LTop(cur, n) ==
    (IF Len(cur) > n THEN cur[n + 1] * LBase ELSE 0)
        + (IF Len(cur) >= n THEN cur[n] ELSE 0)

(* The quotient limb of cur by b, cur < b * LBase: searched between the    *)
(* quotients of the leading limbs by the top limb of b and by that plus 1. *)
LQuot(cur, b) ==
    The({LQuotLimb(cur, b, ct \div (b[Len(b)] + 1),
                   IF ct \div b[Len(b)] < LBase THEN ct \div b[Len(b)]
                   ELSE LBase - 1) :
            ct \in {LTop(cur, Len(b))}})

(* One step of school division: the limb ai in front of the division high  *)
(* of the limbs above it.                                                  *)
LDivStep(high, ai, b) ==
    The({The({<<LNorm(<<t>> \o high[1]), LSub(cur, LMulSmall(b, t))>> :
                t \in {LQuot(cur, b)}}) :
            cur \in {LNorm(<<ai>> \o high[2])}})

(* School division by b > 0 of the limbs i.. of a: <<quotient, remainder>> *)
RECURSIVE LDivModAt(_, _, _)
LDivModAt(a, b, i) ==
    IF i > Len(a) THEN <<<<>>, <<>>>>
    ELSE The({LDivStep(high, a[i], b) : high \in {LDivModAt(a, b, i + 1)}})

LDivMod(a, b) == LDivModAt(a, b, 1)

(* a / b rounded half to even *)
LDivRound(a, b) ==
    The({LET q   == qr[1]
             c   == LCmp(LAdd(qr[2], qr[2]), b)
             odd == q # <<>> /\ q[1] % 2 = 1
         IN  IF c > 0 \/ (c = 0 /\ odd) THEN LAdd(q, <<1>>) ELSE q :
            qr \in {LDivMod(a, b)}})

(* binary64: 53 significant bits *)
MantBits == 53

(* The powers of two 2^0 .. 2^MaxPow2, computed once; larger powers are    *)
(* products of these.                                                      *)
MaxPow2 == 5 * MantBits
RECURSIVE Pow2Sq(_)
Pow2Sq(n) ==
    IF n = 0 THEN <<1>>
    ELSE The({LMulSmall(LMul(h, h), IF n % 2 = 0 THEN 1 ELSE 2) :
                h \in {Pow2Sq(n \div 2)}})
Pow2Tab == <<>> \o [i \in 1..(MaxPow2 + 1) |-> Pow2Sq(i - 1)]

(* 2^n *)
RECURSIVE LPow2(_)
LPow2(n) ==
    IF n <= MaxPow2 THEN Pow2Tab[n + 1]
    ELSE LMul(Pow2Tab[MaxPow2 + 1], LPow2(n - MaxPow2))

(* The largest i in lo..hi with 2^i <= a, given 2^lo <= a. *)
RECURSIVE LLog2In(_, _, _)
LLog2In(a, lo, hi) ==
    IF lo = hi THEN lo
    ELSE IF LCmp(LPow2((lo + hi + 1) \div 2), a) <= 0
    THEN LLog2In(a, (lo + hi + 1) \div 2, hi)
    ELSE LLog2In(a, lo, (lo + hi + 1) \div 2 - 1)

(* floor(log2(a)) for a > 0: a of n limbs lies in [10^(4n-4), 10^(4n)). *)
LLog2(a) ==
    LLog2In(a, (13287 * (Len(a) - 1)) \div 1000, (13288 * Len(a)) \div 1000)

(* 10^n *)
RECURSIVE LPow10(_)
LPow10(n) ==
    IF n >= 4 THEN <<0>> \o LPow10(n - 4)
    ELSE IF n > 0 THEN LMulSmall(LPow10(n - 1), 10)
    ELSE <<1>>

----------------------------------------------------------------------------
(* Python floats: IEEE 754 binary64, round to nearest, ties to even.  A    *)
(* positive float is [m, e] with value m * 2^e and 2^52 <= m < 2^53 (m in  *)
(* limbs); zero is FZero.  Subnormals and overflow do not occur in the     *)
(* ranges used.                                                            *)

FMin == LPow2(MantBits - 1)
FMax == LPow2(MantBits)
FZero == [m |-> <<>>, e |-> 0]

(* num * 2^-k / den rounded half to even *)
FShifted(num, den, k) ==
    IF k >= 0 THEN LDivRound(num, LMul(den, LPow2(k)))
    ELSE LDivRound(LMul(num, LPow2(-k)), den)

(* num / den >= 2^d *)
FAtLeast(num, den, d) ==
    IF d >= 0 THEN LCmp(num, LMul(den, LPow2(d))) >= 0
    ELSE LCmp(LMul(num, LPow2(-d)), den) >= 0

(* floor(log2(num / den)) for num, den > 0 *)
FLog2(num, den) ==
    The({IF FAtLeast(num, den, d) THEN d ELSE d - 1 :
            d \in {LLog2(num) - LLog2(den)}})

(* The float nearest to num / den * 2^e: the significand is the quotient   *)
(* scaled into [2^52, 2^53) and rounded; rounded up to 2^53 it is 2^52 at  *)
(* the next exponent.                                                      *)
FRound(num, den, e) ==
    IF num = <<>> THEN FZero
    ELSE The({The({IF m = FMax THEN [m |-> FMin, e |-> e + k + 1]
                   ELSE [m |-> m, e |-> e + k] :
                     m \in {FShifted(num, den, k)}}) :
                 k \in {FLog2(num, den) - (MantBits - 1)}})

(* float of a decimal literal n / 10^d, and of a natural *)
FDec(n, d) == FRound(LFromInt(n), LPow10(d), 0)
FNat(k) == FRound(k, <<1>>, 0)

(* x / y and x * y, y > 0 *)
FDiv(x, y) == FRound(x.m, y.m, x.e - y.e)
FMul(x, y) == FRound(LMul(x.m, y.m), <<1>>, x.e + y.e)

(* math.floor(x) for x >= 0, in limbs *)
FFloor(x) ==
    IF x.e >= 0 THEN LMul(x.m, LPow2(x.e))
    ELSE IF -x.e > MantBits THEN <<>>
    ELSE LDivMod(x.m, LPow2(-x.e))[1]

(* round(x, d) for x >= 0: the exact value of x rounded half to even to d  *)
(* decimals, as a count of 10^-d in limbs.                                 *)
FRoundDec(x, d) ==
    IF x.e >= 0 THEN LMul(LMul(x.m, LPow2(x.e)), LPow10(d))
    ELSE LDivRound(LMul(x.m, LPow10(d)), LPow2(-x.e))

(* x + y, and x - y for x >= y, of floats >= 0: the exact sum or           *)
(* difference at the smaller exponent, rounded.                            *)
FAdd(x, y) ==
    IF x.m = <<>> THEN y
    ELSE IF y.m = <<>> THEN x
    ELSE IF x.e >= y.e
    THEN FRound(LAdd(LMul(x.m, LPow2(x.e - y.e)), y.m), <<1>>, y.e)
    ELSE FRound(LAdd(x.m, LMul(y.m, LPow2(y.e - x.e))), <<1>>, x.e)

FSub(x, y) ==
    IF y.m = <<>> THEN x
    ELSE IF x.e >= y.e
    THEN FRound(LSub(LMul(x.m, LPow2(x.e - y.e)), y.m), <<1>>, y.e)
    ELSE FRound(LSub(x.m, LMul(y.m, LPow2(y.e - x.e))), <<1>>, x.e)

(* -1, 0, 1 as x < y, x = y, x > y, for floats >= 0 *)
FCmp(x, y) ==
    IF x.m = <<>> THEN (IF y.m = <<>> THEN 0 ELSE -1)
    ELSE IF y.m = <<>> THEN 1
    ELSE IF x.e < y.e THEN -1
    ELSE IF x.e > y.e THEN 1
    ELSE LCmp(x.m, y.m)

(* The float u units in the last place above x > 0, u in {0, 1}. *)
FUlps(x, u) ==
    IF u = 0 THEN x
    ELSE IF LAdd(x.m, <<1>>) = FMax THEN [m |-> FMin, e |-> x.e + 1]
    ELSE [m |-> LAdd(x.m, <<1>>), e |-> x.e]

FLt(x, y) == FCmp(x, y) < 0
FLe(x, y) == FCmp(x, y) <= 0

----------------------------------------------------------------------------
(* Units and program constants.                                            *)

PriceDecimals == 3          \* prices are counted in 10^-3 KRW
PriceScale == 1000          \* price / KRW units per KRW: 0.001 is the smallest tick
VOLUME_DECIMALS == 8        \* strategy.py: quantities carry 8 decimals
BASE_AMOUNT == 5000         \* strategy.py: base buy notional, KRW
FEE_RATE_E4 == 4            \* utils.py: FEE_RATE = 0.0004, in units of 10^-4
SAFETY_KRW == 10            \* strategy.py: safe_total = min_total + 10.0
SELL_FRACTION_E2 == 10      \* strategy.py: coin_balance * 0.10, in hundredths
DIFF_CAP_PCT == 5           \* strategy.py: drawdown capped at 5 %
TpScale == 1000             \* take_profit_pct is counted in 0.001 %

KRW(n) == n * PriceScale

(* An amount of money is an integer counting 10^-dec KRW.  The prices and  *)
(* amounts of a round are on the price grid, dec = PriceDecimals; quotes   *)
(* above the range of that grid are counted in whole KRW, dec = 0.         *)
RECURSIVE UnitOf(_)
UnitOf(dec) == IF dec = 0 THEN 1 ELSE 10 * UnitOf(dec - 1)

(* int(x) of a non-negative amount: the whole KRW below it. *)
IntKRW(x) == (x \div PriceScale) * PriceScale

(* a KRW amount (price units) as a notional in price units * 10^-8 *)
Notional(x) == BShift(BFromInt(x), VOLUME_DECIMALS)

----------------------------------------------------------------------------
(* trader/utils.py                                                         *)

(* Variant: the lower bounds are exclusive. *)
get_order_unit_exclusive(dec, price) ==
    IF price > 2000000 * UnitOf(dec) THEN 1000 * UnitOf(dec)
    ELSE IF price > 1000000 * UnitOf(dec) THEN 500 * UnitOf(dec)
    ELSE IF price > 500000 * UnitOf(dec) THEN 100 * UnitOf(dec)
    ELSE IF price > 100000 * UnitOf(dec) THEN 50 * UnitOf(dec)
    ELSE IF price > 10000 * UnitOf(dec) THEN 10 * UnitOf(dec)
    ELSE IF price > 1000 * UnitOf(dec) THEN 5 * UnitOf(dec)
    ELSE IF price > 100 * UnitOf(dec) THEN UnitOf(dec)
    ELSE IF price > 10 * UnitOf(dec) THEN UnitOf(dec) \div 10
    ELSE IF price > UnitOf(dec) THEN UnitOf(dec) \div 100
    ELSE UnitOf(dec) \div 1000

(* The tick of a price, both in 10^-dec KRW.  The ticks below 1 KRW, of    *)
(* the prices below 100 KRW, need dec = PriceDecimals.                     *)
get_order_unit(dec, price) ==
    IF price >= 2000000 * UnitOf(dec) THEN 1000 * UnitOf(dec)
    ELSE IF price >= 1000000 * UnitOf(dec) THEN 500 * UnitOf(dec)
    ELSE IF price >= 500000 * UnitOf(dec) THEN 100 * UnitOf(dec)
    ELSE IF price >= 100000 * UnitOf(dec) THEN 50 * UnitOf(dec)
    ELSE IF price >= 10000 * UnitOf(dec) THEN 10 * UnitOf(dec)
    ELSE IF price >= 1000 * UnitOf(dec) THEN 5 * UnitOf(dec)
    ELSE IF price >= 100 * UnitOf(dec) THEN UnitOf(dec)
    ELSE IF price >= 10 * UnitOf(dec) THEN UnitOf(dec) \div 10
    ELSE IF price >= UnitOf(dec) THEN UnitOf(dec) \div 100
    ELSE UnitOf(dec) \div 1000

(* The float of a price or KRW amount of the 0.001 grid, and the grid      *)
(* value a float >= 0 stands for (the float nearest to it).                *)
FPrice(x) == FDec(x, PriceDecimals)
PriceOf(f) == BToInt(LToB(FRoundDec(f, PriceDecimals)))

(* The float of a quantity counted in 10^-8 coins (decimal digits). *)
FQty(v) == FRound(LFromB(v), LPow10(VOLUME_DECIMALS), 0)

(* round(x, 8) of a float x >= 0: the count of 10^-8 in decimal digits,    *)
(* and the float round() returns, the one nearest to that decimal.         *)
Round8(x) == LToB(FRoundDec(x, VOLUME_DECIMALS))
FRound8(x) == FRound(FRoundDec(x, VOLUME_DECIMALS), LPow10(VOLUME_DECIMALS), 0)

(* math.ceil(x) for x >= 0, in limbs *)
FCeil(x) ==
    IF FCmp(FNat(FFloor(x)), x) = 0 THEN FFloor(x) ELSE LAdd(FFloor(x), <<1>>)

(* Variant: rounds up. *)
round_down_ceil(x, unit) ==
    IF unit.m = <<>> THEN x
    ELSE FRound8(FMul(FNat(FCeil(FDiv(x, unit))), unit))

(* Lines 63-66 on floats x >= 0 and unit >= 0:                             *)
(* k = math.floor(x / unit); return round(k * unit, 8).                    *)
round_down(x, unit) ==
    IF unit.m = <<>> THEN x
    ELSE FRound8(FMul(FNat(FFloor(FDiv(x, unit))), unit))

(* round(krw / price, 8) as a quantity in 10^-8 coins: the float quotient  *)
(* of the two floats, rounded to 8 decimals; price > 0.                    *)
RoundQty(krw, price) == Round8(FDiv(FPrice(krw), FPrice(price)))

(* Variant: the quotient is cut after 8 decimals, not rounded. *)
min_volume_for_krw_truncated(min_total_krw, price) ==
    IF price <= 0 THEN <<>>
    ELSE BDivInt(Notional(min_total_krw), price)[1]

min_volume_for_krw(min_total_krw, price) ==
    IF price <= 0 THEN <<>>
    ELSE RoundQty(min_total_krw, price)

(* A float with its sign: sign is -1, 0 or 1 and abs the magnitude. *)
SZero == [sign |-> 0, abs |-> FZero]
Signed(sign, f) == IF f.m = <<>> THEN SZero ELSE [sign |-> sign, abs |-> f]

F1 == FNat(<<1>>)
F100 == FNat(<<100>>)

(* fee_rate, a multiple of 10^-4, as a float (FEE_RATE = 0.0004) *)
FFee(fee_e4) == FDec(fee_e4, 4)

(* Lines 86-88 from the two products: numerator = net - cost,              *)
(* denom = cost, (numerator / denom) * 100.0.                              *)
PnlPct(net, cost) ==
    IF FLt(net, cost)
    THEN Signed(-1, FMul(FDiv(FSub(cost, net), cost), F100))
    ELSE Signed(1, FMul(FDiv(FSub(net, cost), cost), F100))

(* Variant: no fee on the selling side. *)
effective_pnl_pct_buy_fee_only(current_price, avg_price, fee_e4) ==
    IF avg_price <= 0 THEN SZero
    ELSE PnlPct(current_price,
                FMul(FPrice(avg_price), FAdd(F1, FFee(fee_e4))))

(* Lines 84-88 for the float current_price >= 0, avg_price on the price    *)
(* grid and the fee in 10^-4: current_price * (1 - fee_rate) and           *)
(* avg_price * (1 + fee_rate), then PnlPct; 0.0 for avg_price <= 0.        *)
effective_pnl_pct(current_price, avg_price, fee_e4) ==
    IF avg_price <= 0 THEN SZero
    ELSE PnlPct(FMul(current_price, FSub(F1, FFee(fee_e4))),
                FMul(FPrice(avg_price), FAdd(F1, FFee(fee_e4))))

(* take_profit_pct, counted in 0.001 %, as a float *)
FTarget(target) == FDec(target, 3)

(* Variant: pnl_pct <= take_profit_pct, an exclusive threshold. *)
BelowTarget_inclusive(pnl_pct, target) ==
    pnl_pct.sign < 0 \/ FLe(pnl_pct.abs, FTarget(target))

(* strategy.py line 170: pnl_pct < take_profit_pct, target >= 0 *)
BelowTarget(pnl_pct, target) ==
    pnl_pct.sign < 0 \/ FLt(pnl_pct.abs, FTarget(target))

----------------------------------------------------------------------------
(* trader/strategy.py: the arithmetic of perform_buy                       *)

FBase == FNat(LFromInt(BASE_AMOUNT))
FCap == FNat(LFromInt(DIFF_CAP_PCT))

(* Lines 73-76 for cur_price < avg_buy_price, in floats:                   *)
(* diff_pct = (avg - cur) / avg * 100.0; capped = max(0.0, min(diff_pct,   *)
(* 5.0)); multiplier = 1.0 + capped / 5.0; base_amount * multiplier.       *)
DiffPct(cur, avg) == FMul(FDiv(FSub(avg, cur), avg), F100)
Capped(diff_pct) ==
    IF FLt(FCap, diff_pct) THEN FCap
    ELSE IF FLt(FZero, diff_pct) THEN diff_pct
    ELSE FZero
Multiplied(cur, avg) == FMul(FBase, FAdd(F1, FDiv(Capped(DiffPct(cur, avg)), FCap)))

(* Variant: scales whenever there is an average price, held or not. *)
ScaledAmount_any_balance(cur_price, avg_buy_price, coin_avail) ==
    IF avg_buy_price > 0 /\ cur_price < avg_buy_price
    THEN Multiplied(FPrice(cur_price), FPrice(avg_buy_price))
    ELSE FBase

(* Lines 66-80: the amount before it is rounded, a float. *)
ScaledAmount(cur_price, avg_buy_price, coin_avail) ==
    IF coin_avail # <<>> /\ avg_buy_price > 0 /\ cur_price < avg_buy_price
    THEN Multiplied(FPrice(cur_price), FPrice(avg_buy_price))
    ELSE FBase

(* Line 83: int(round(amount)), in whole KRW on the price grid. *)
RoundKRW(amount) == KRW(BToInt(LToB(FRoundDec(amount, 0))))

(* Lines 84-91 from the rounded amount a0: raised to int(min_total),       *)
(* capped to int(krw_avail); skip when the capped amount is below the      *)
(* minimum.                                                                *)
Corrected(a0, min_total, krw_avail) ==
    LET a1 == IF a0 < min_total THEN IntKRW(min_total) ELSE a0
        a2 == IF a1 > krw_avail THEN IntKRW(krw_avail) ELSE a1
    IN  [amount |-> a2,
         skip   |-> a1 > krw_avail /\ a2 < min_total]

(* Lines 66-91: the sized amount. *)
SizeAmount(cur_price, avg_buy_price, coin_avail, min_total, krw_avail) ==
    Corrected(RoundKRW(ScaledAmount(cur_price, avg_buy_price, coin_avail)),
              min_total, krw_avail)

(* The float 1e-12 of line 99. *)
FTiny == FDec(1, 12)

(* round(amount / max(limit_price, 1e-12), 8), amount and limit_price in   *)
(* 10^-dec KRW.                                                            *)
LimitQty(dec, amount, limit_price) ==
    Round8(FDiv(FDec(amount, dec),
                IF limit_price <= 0 THEN FTiny ELSE FDec(limit_price, dec)))

(* Variant: no safety margin. *)
SafeTotal_no_margin(dec, min_total) == FDec(min_total, dec)

(* Line 112: safe_total = min_total + 10.0, the float sum. *)
SafeTotal(dec, min_total) ==
    FAdd(FDec(min_total, dec), FNat(LFromInt(SAFETY_KRW)))

(* The quotes the exchange answers with, in 0.001 KRW. *)
PriceSet == {500, 12800, KRW(101), KRW(104), 237405, 247401, 252601,
             KRW(1000), KRW(3004), 54309215, KRW(156300)}

(* Line 95 with the floats of the quote and the tick. *)
OneTickBelow(cur, tick) == round_down(FSub(cur, tick), tick)

(* Lines 94-95: one tick below the quote, rounded down to the tick, in     *)
(* 10^-dec KRW as the quote.                                               *)
limit_price(dec, cur_price) ==
    BToInt(LToB(FRoundDec(OneTickBelow(FDec(cur_price, dec),
                                       FDec(get_order_unit(dec, cur_price), dec)),
                          dec)))

(* limit_price over the quotes, computed once: the pairs <<quote, limit>>. *)
LimitPrices == {<<p, limit_price(PriceDecimals, p)>> : p \in PriceSet}
LimitPriceOf(cur_price) == (CHOOSE t \in LimitPrices : t[1] = cur_price)[2]

(* Lines 100, 107, 114: total = limit_price * volume, a float. *)
Priced(dec, price, volume) ==
    [price |-> price, volume |-> volume,
     total |-> FMul(FDec(price, dec), FQty(volume))]

(* Lines 103-107: below the minimum, price and quantity at the quote. *)
Fallback(dec, o, cur_price, amount, min_total) ==
    IF FLt(o.total, FDec(min_total, dec))
    THEN [lo |-> Priced(dec, cur_price,
                        Round8(FDiv(FDec(amount, dec), FDec(cur_price, dec)))),
          fallback |-> TRUE]
    ELSE [lo |-> o, fallback |-> FALSE]

(* Lines 110-114: at or below the minimum, the quantity from safe_total:   *)
(* round(safe_total / limit_price, 8).                                     *)
Buffered(dec, f, min_total) ==
    IF FLe(f.lo.total, FDec(min_total, dec))
    THEN The({[price |-> o.price, volume |-> o.volume, total |-> o.total,
               fallback |-> f.fallback, buffered |-> TRUE] :
                 o \in {Priced(dec, f.lo.price,
                               Round8(FDiv(SafeTotal(dec, min_total),
                                           FDec(f.lo.price, dec))))}})
    ELSE [price |-> f.lo.price, volume |-> f.lo.volume, total |-> f.lo.total,
          fallback |-> f.fallback, buffered |-> FALSE]

(* Lines 99-115: quantity and notional of the limit order at the limit     *)
(* price p1, with the fallback to the quote and the buffered notional.     *)
LimitOrderAt(dec, p1, cur_price, amount, min_total) ==
    Buffered(dec,
             Fallback(dec, Priced(dec, p1, LimitQty(dec, amount, p1)),
                      cur_price, amount, min_total),
             min_total)

(* Lines 94-115: price, quantity and notional of the limit order, for a    *)
(* quote, a sized amount and a minimum in 10^-dec KRW.                     *)
LimitOrder(dec, cur_price, amount, min_total) ==
    LimitOrderAt(dec, limit_price(dec, cur_price), cur_price, amount, min_total)

----------------------------------------------------------------------------
(* trader/strategy.py: the decision of perform_sell (lines 161-187)        *)

(* Variant: the raised quantity is not compared with the balance. *)
WithinBalance_unchecked(min_vol, coin_balance) == TRUE

(* Line 182: min_vol <= coin_balance *)
WithinBalance(min_vol, coin_balance) == FLe(FQty(min_vol), FQty(coin_balance))

(* Line 175: round(coin_balance * 0.10, 8) *)
SellVolume(coin_balance) == Round8(FMul(FQty(coin_balance), FDec(SELL_FRACTION_E2, 2)))

(* Lines 178-187 for the quantity sell_volume. *)
SellSized(sell_volume, cur_price, coin_balance, min_total) ==
    IF FLt(FMul(FQty(sell_volume), FPrice(cur_price)), FPrice(min_total))
    THEN The({IF WithinBalance(min_vol, coin_balance)
              THEN [sell |-> TRUE, volume |-> min_vol, why |-> "raised"]
              ELSE [sell |-> FALSE, volume |-> <<>>, why |-> "below_minimum"] :
                min_vol \in {min_volume_for_krw(min_total, cur_price)}})
    ELSE [sell |-> TRUE, volume |-> sell_volume, why |-> "tenth"]

SellDecision(cur_price, avg_buy_price, coin_balance, min_total, take_profit_pct) ==
    IF coin_balance = <<>> \/ avg_buy_price <= 0
    THEN [sell |-> FALSE, volume |-> <<>>, why |-> "no_position"]
    ELSE IF BelowTarget(effective_pnl_pct(FPrice(cur_price), avg_buy_price,
                                          FEE_RATE_E4),
                        take_profit_pct)
    THEN [sell |-> FALSE, volume |-> <<>>, why |-> "below_target"]
    ELSE SellSized(SellVolume(coin_balance), cur_price, coin_balance, min_total)

----------------------------------------------------------------------------
(* trader/utils.py: retry                                                  *)

DefaultTries == 3
DefaultDelay == 500         \* delay = 0.5 s, counted in milliseconds
DefaultBackoff == 2

(* The state of one retry(fn, tries, delay, backoff) call: the loop index  *)
(* i, the current delay, last_err (the number of the fn call whose         *)
(* failure it holds, 0 for None), and what the call has done so far: the   *)
(* number of fn calls, the sleeps in order, the RetryErrors raised.        *)
RetryStart(tries, delay, backoff) ==
    [tries |-> tries, delay0 |-> delay, backoff |-> backoff,
     i |-> 0, delay |-> delay, last_err |-> 0,
     calls |-> 0, slept |-> <<>>, raised |-> 0,
     status |-> "running", result |-> "none"]

(* Line 24: fn() returned v. *)
RetryReturn(r, v) ==
    [r EXCEPT !.calls = @ + 1, !.status = "returned", !.result = v]

(* Variant: the delay is never multiplied. *)
RetryExcept_no_backoff(r) ==
    LET n == r.calls + 1
    IN  IF r.i = r.tries - 1
        THEN [r EXCEPT !.calls = n, !.last_err = n,
                       !.raised = @ + 1, !.status = "raised",
                       !.result = "RetryError"]
        ELSE [r EXCEPT !.calls = n, !.last_err = n,
                       !.slept = Append(@, r.delay),
                       !.i = @ + 1]

(* Variant: the sleep comes before the test for the last attempt. *)
RetryExcept_sleep_last(r) ==
    LET n == r.calls + 1
    IN  IF r.i = r.tries - 1
        THEN [r EXCEPT !.calls = n, !.last_err = n,
                       !.slept = Append(@, r.delay),
                       !.raised = @ + 1, !.status = "raised",
                       !.result = "RetryError"]
        ELSE [r EXCEPT !.calls = n, !.last_err = n,
                       !.slept = Append(@, r.delay),
                       !.delay = @ * r.backoff,
                       !.i = @ + 1]

(* Lines 25-31: fn() raised.  On the last attempt the loop breaks and      *)
(* RetryError(last_err) is raised; otherwise sleep(delay), delay *= backoff*)
RetryExcept(r) ==
    LET n == r.calls + 1
    IN  IF r.i = r.tries - 1
        THEN [r EXCEPT !.calls = n, !.last_err = n,
                       !.raised = @ + 1, !.status = "raised",
                       !.result = "RetryError"]
        ELSE [r EXCEPT !.calls = n, !.last_err = n,
                       !.slept = Append(@, r.delay),
                       !.delay = @ * r.backoff,
                       !.i = @ + 1]

(* A call made without the wrapper: its failure propagates at once. *)
BareExcept(r) ==
    [r EXCEPT !.calls = @ + 1, !.last_err = r.calls + 1,
              !.status = "raised", !.result = "Exception"]

----------------------------------------------------------------------------
(* The exchange's answers and the configuration, drawn from small sets.    *)
(* Prices and KRW amounts are in 0.001 KRW, quantities in 10^-8 coins.     *)

Coins(n) == BShift(BFromInt(n), VOLUME_DECIMALS)

(* Answers on which the rounding of the floats decides:                    *)
(*   - the average 53728.5, whose fee-adjusted PnL at the quote 54309.215  *)
(*     computes to 1.0 exactly;                                            *)
(*   - the minimum 6000, which 0.0384 coins at 156250 (one tick below the  *)
(*     quote 156300) are worth exactly and compute below                   *)
(*     (5999.999999999999);                                                *)
(*   - the balance 1853.93503505, whose tenth lies halfway between two     *)
(*     quantities of 8 decimals;                                           *)
(*   - the minimum 8182.935, whose sum with 10.0 computes to               *)
(*     8192.935000000001, the float next above the one of 8192.935: at the *)
(*     quote 12.8 the quantity is 640.07304688 and not 640.07304687.       *)
TieBalance == BAdd(Coins(1853), BFromInt(93503505))
TieChance(bid_min, ask_bal, avg) ==
    [bid_min |-> bid_min, bid_bal |-> KRW(100000), ask_min |-> KRW(5000),
     ask_bal |-> ask_bal, avg |-> avg]

ChanceSet ==
    [bid_min : {KRW(5000), KRW(5000) + 500},
     bid_bal : {KRW(100000), KRW(7000) + 500, KRW(5000) + 200, KRW(4999)},
     ask_min : {KRW(5000)},
     ask_bal : {<<>>, Coins(10), Coins(100), Coins(500)},
     avg     : {0, 249900}]
    \cup {TieChance(KRW(5000), Coins(10), 53728500),
          TieChance(KRW(6000), <<>>, 0),
          TieChance(KRW(5000), TieBalance, 249900),
          TieChance(8182935, <<>>, 0)}

TakeProfitSet == {1000}     \* TAKE_PROFIT_PCT = 1.0 %

(* Lines 66-83 over the quotes and positions, computed once: the rounded   *)
(* amount for a quote p, an average a and a coin balance b.                *)
RoundedAmounts ==
    {<<p, a, b, RoundKRW(ScaledAmount(p, a, b))>> :
        p \in PriceSet, a \in {c.avg : c \in ChanceSet},
        b \in {c.ask_bal : c \in ChanceSet}}

(* Lines 66-91 for a quote and an order chance. *)
SizeOf(cur_price, chance) ==
    Corrected((CHOOSE t \in RoundedAmounts :
                  /\ t[1] = cur_price
                  /\ t[2] = chance.avg
                  /\ t[3] = chance.ask_bal)[4],
              chance.bid_min, chance.bid_bal)

(* Lines 94-115 over the quotes, sized amounts and minimums, computed      *)
(* once: the limit order of <<quote, amount, min_total>>.                  *)
LimitOrders ==
    {<<k, LimitOrder(PriceDecimals, k[1], k[2], k[3])>> :
        k \in {<<p, SizeOf(p, c).amount, c.bid_min>> :
                  p \in PriceSet, c \in ChanceSet}}

(* Lines 66-115: the sized amount sz and the limit order lo of perform_buy *)
BuyPlanOf(cur_price, chance) ==
    The({[sz |-> sz,
          lo |-> (CHOOSE t \in LimitOrders :
                     t[1] = <<cur_price, sz.amount, chance.bid_min>>)[2]] :
            sz \in {SizeOf(cur_price, chance)}})

(* Lines 161-187 over the quotes, positions and targets, computed once. *)
SellPlans ==
    {<<k[1], k[2], k[3], k[4], k[5], SellDecision(k[1], k[2], k[3], k[4], k[5])>> :
        k \in {<<p, c.avg, c.ask_bal, c.ask_min, t>> :
                  p \in PriceSet, c \in ChanceSet, t \in TakeProfitSet}}
SellPlanOf(cur_price, chance, take_profit_pct) ==
    (CHOOSE t \in SellPlans :
        /\ t[1] = cur_price
        /\ t[2] = chance.avg
        /\ t[3] = chance.ask_bal
        /\ t[4] = chance.ask_min
        /\ t[5] = take_profit_pct)[6]

MaxTries == 4
DelaySet == {500, 1000}
BackoffSet == {1, 2, 3}

----------------------------------------------------------------------------
(* State.                                                                  *)

VARIABLES
    pc,         \* where the process is: a call site, a handler, the loop
    rt,         \* the retry call in progress (or the last one)
    fn_ok_at,   \* retry alone: the call on which fn returns, 0 for never
    call,       \* a helper of utils.py called alone: name, arguments, result
    tp,         \* TAKE_PROFIT_PCT
    sell,       \* locals of perform_sell, kept until perform_buy has its quote
    buy,        \* locals of perform_buy
    order,      \* the exchange's state of the round's limit order
    sent,       \* the last order the exchange accepted in this round
    log,        \* this round's completed exchange calls and waits, in order
    filled,     \* the part of the round's limit order the exchange has filled
    clock       \* the scheduler of run.py alone: the time and its slots

vars == <<pc, rt, fn_ok_at, call, tp, sell, buy, order, sent, log, filled, clock>>

NoSell == [cur_price |-> 0, avg |-> 0, balance |-> <<>>, min_total |-> 0,
           volume |-> <<>>]
NoBuy  == [quote |-> 0, cur_price |-> 0, min_total |-> 0, krw_avail |-> 0,
           amount |-> 0, price |-> 0, volume |-> <<>>, total |-> <<>>]
NoOrder == [kind |-> "none", price |-> 0, volume |-> <<>>, notional |-> 0]

NoCall == [fn |-> "none", args |-> <<>>, out |-> <<>>]

NoClock == [anchor |-> 0, next_run |-> 0, now |-> 0, read |-> 0, starts |-> <<>>]

Idle == RetryStart(DefaultTries, DefaultDelay, DefaultBackoff)

(* The call sites of a round.  Every one is a retry(lambda: ...) call but  *)
(* strategy.py line 136, bithumb.get_order(new_uuid).                      *)
Sites == {"sell_price", "sell_chance", "sell_order",
          "buy_price", "buy_chance", "buy_limit", "buy_poll", "buy_cancel",
          "buy_market", "buy_result", "buy_reprice",
          "sum_chance", "sum_price"}

Wrapped(site) == site # "buy_result"

(* Variant: no try around the market sell in perform_sell. *)
Handler_sell_uncaught(site) ==
    IF site \in {"buy_limit", "buy_poll", "buy_cancel", "buy_market",
                 "buy_result", "buy_reprice"}
    THEN "buy_except"
    ELSE "run_except"

(* Variant: no except clause around trade_once in the loop. *)
Handler_uncaught(site) ==
    IF site \in {"buy_limit", "buy_poll", "buy_cancel", "buy_market",
                 "buy_result", "buy_reprice"}
    THEN "buy_except"
    ELSE IF site = "sell_order" THEN "sell_except"
    ELSE "uncaught"

(* The except clause an exception raised at a call site reaches: the try   *)
(* of perform_buy (lines 118-147), the try of perform_sell (189-194), and  *)
(* for everything else the try of the loop in run.py (44-47).              *)
Handler(site) ==
    IF site \in {"buy_limit", "buy_poll", "buy_cancel", "buy_market",
                 "buy_result", "buy_reprice"}
    THEN "buy_except"
    ELSE IF site = "sell_order" THEN "sell_except"
    ELSE "run_except"

Init ==
    /\ pc = "run_loop"
    /\ rt = Idle
    /\ fn_ok_at = 0
    /\ call = NoCall
    /\ tp \in TakeProfitSet
    /\ sell = NoSell
    /\ buy = NoBuy
    /\ order = "none"
    /\ sent = NoOrder
    /\ log = <<>>
    /\ filled = <<>>
    /\ clock = NoClock

(* Enter a call site: a fresh retry call with the default arguments. *)
Goto(site) ==
    /\ pc' = site
    /\ rt' = Idle

At(site) == pc = site /\ rt.status = "running"

----------------------------------------------------------------------------
(* run.py and trade_once                                                   *)

(* run.py line 45 and strategy.py lines 199-200: a round starts. *)
TradeOnce ==
    /\ pc = "run_loop"
    /\ Goto("sell_price")
    /\ sell' = NoSell
    /\ buy' = NoBuy
    /\ order' = "none"
    /\ sent' = NoOrder
    /\ log' = <<>>
    /\ filled' = <<>>
    /\ UNCHANGED <<clock, fn_ok_at, call, tp>>

(* run.py lines 46-47: except Exception around trade_once. *)
RunExcept ==
    /\ pc = "run_except"
    /\ pc' = "run_next"
    /\ sell' = NoSell
    /\ buy' = NoBuy
    /\ UNCHANGED <<clock, filled, rt, fn_ok_at, call, tp, order, sent, log>>

(* Variant: the process ends after the round (quit() after the try). *)
NextSlot_quit ==
    /\ pc = "run_next"
    /\ pc' = "exited"
    /\ UNCHANGED <<clock, filled, rt, fn_ok_at, call, tp, sell, buy, order, sent, log>>

(* run.py lines 50-58: the next slot, then the wait for it. *)
NextSlot ==
    /\ pc = "run_next"
    /\ pc' = "run_loop"
    /\ UNCHANGED <<clock, filled, rt, fn_ok_at, call, tp, sell, buy, order, sent, log>>

(* An exchange call fails: inside retry the wrapper decides, a bare call   *)
(* raises at once; a raised exception reaches the enclosing except clause. *)
CallFails ==
    /\ \E site \in Sites :
         /\ At(site)
         /\ rt' = IF Wrapped(site) THEN RetryExcept(rt) ELSE BareExcept(rt)
         /\ pc' = IF rt'.status = "raised" THEN Handler(site) ELSE site
    /\ UNCHANGED <<clock, filled, fn_ok_at, call, tp, sell, buy, order, sent, log>>

----------------------------------------------------------------------------
(* perform_sell                                                            *)

(* Line 158: the quote. *)
SellPriceOk ==
    /\ At("sell_price")
    /\ \E p \in PriceSet : sell' = [NoSell EXCEPT !.cur_price = p]
    /\ Goto("sell_chance")
    /\ log' = Append(log, "sell_price")
    /\ UNCHANGED <<clock, filled, fn_ok_at, call, tp, buy, order, sent>>

(* Lines 159-187: the order chance, then the decision. *)
SellChanceOk ==
    /\ At("sell_chance")
    /\ \E c \in ChanceSet :
         \E d \in {SellPlanOf(sell.cur_price, c, tp)} :
             IF d.sell
             THEN /\ sell' = [cur_price |-> sell.cur_price, avg |-> c.avg,
                              balance |-> c.ask_bal, min_total |-> c.ask_min,
                              volume |-> d.volume]
                  /\ Goto("sell_order")
             ELSE /\ sell' = [cur_price |-> sell.cur_price, avg |-> c.avg,
                              balance |-> c.ask_bal, min_total |-> c.ask_min,
                              volume |-> <<>>]
                  /\ Goto("buy_price")
    /\ log' = Append(log, "sell_chance")
    /\ UNCHANGED <<clock, filled, fn_ok_at, call, tp, buy, order, sent>>

(* Lines 190-192: the market sell is accepted. *)
SellOrderOk ==
    /\ At("sell_order")
    /\ sent' = [kind |-> "sell", price |-> sell.cur_price,
                volume |-> sell.volume, notional |-> 0]
    /\ Goto("buy_price")
    /\ log' = Append(log, "sell")
    /\ UNCHANGED <<clock, filled, fn_ok_at, call, tp, sell, buy, order>>

(* Lines 193-194: except around the market sell. *)
SellExcept ==
    /\ pc = "sell_except"
    /\ sell' = NoSell
    /\ Goto("buy_price")
    /\ UNCHANGED <<clock, filled, fn_ok_at, call, tp, buy, order, sent, log>>

----------------------------------------------------------------------------
(* perform_buy                                                             *)

(* Variant: the quote perform_sell read is kept and used again. *)
BuyQuote_reused(answer, sell_locals) ==
    IF sell_locals.cur_price > 0 THEN sell_locals.cur_price ELSE answer

(* Line 56: cur_price is the answer to perform_buy's own quote call;       *)
(* nothing of perform_sell's locals is in scope.                           *)
BuyQuote(answer, sell_locals) == answer

(* Line 56: the quote.  buy.quote is the exchange's answer. *)
BuyPriceOk ==
    /\ At("buy_price")
    /\ \E p \in PriceSet :
         buy' = [NoBuy EXCEPT !.quote = p, !.cur_price = BuyQuote(p, sell)]
    /\ sell' = NoSell
    /\ Goto("buy_chance")
    /\ log' = Append(log, "buy_price")
    /\ UNCHANGED <<clock, filled, fn_ok_at, call, tp, order, sent>>

(* Lines 57-115: the order chance, the sized amount, the limit order. *)
BuyChanceOk ==
    /\ At("buy_chance")
    /\ \E c \in ChanceSet :
         \E plan \in {BuyPlanOf(buy.cur_price, c)} :
             IF plan.sz.skip
             THEN /\ buy' = NoBuy
                  /\ Goto("sum_chance")
             ELSE /\ buy' = [quote |-> buy.quote,
                             cur_price |-> buy.cur_price, min_total |-> c.bid_min,
                             krw_avail |-> c.bid_bal, amount |-> plan.sz.amount,
                             price |-> plan.lo.price, volume |-> plan.lo.volume,
                             total |-> plan.lo.total]
                  /\ Goto("buy_limit")
    /\ log' = Append(log, "buy_chance")
    /\ UNCHANGED <<clock, filled, fn_ok_at, call, tp, sell, order, sent>>

(* Lines 119-121: the limit buy is accepted. *)
BuyLimitOk ==
    /\ At("buy_limit")
    /\ order' = "open"
    /\ sent' = [kind |-> "limit", price |-> buy.price, volume |-> buy.volume,
                notional |-> 0]
    /\ pc' = "buy_wait"
    /\ log' = Append(log, "limit")
    /\ UNCHANGED <<clock, filled, rt, fn_ok_at, call, tp, sell, buy>>

(* Line 122: time.sleep(300). *)
BuyWait ==
    /\ pc = "buy_wait"
    /\ Goto("buy_poll")
    /\ log' = Append(log, "sleep300")
    /\ UNCHANGED <<clock, filled, fn_ok_at, call, tp, sell, buy, order, sent>>

(* Variant: the comparison inverted. *)
is_order_fully_done_inverted(state) == state # "done"

(* utils.py lines 95-96: str(data.get('state')) == 'done' *)
is_order_fully_done(state) == state = "done"

(* Lines 123, 144-145: the status poll answers. *)
BuyPollOk ==
    /\ At("buy_poll")
    /\ log' = Append(log, IF order = "done" THEN "poll_done" ELSE "poll_open")
    /\ IF is_order_fully_done(order)
       THEN /\ buy' = NoBuy
            /\ Goto("sum_chance")
       ELSE /\ buy' = buy
            /\ Goto("buy_cancel")
    /\ UNCHANGED <<clock, filled, fn_ok_at, call, tp, sell, order, sent>>

(* Lines 127-128: the cancel is acknowledged. *)
BuyCancelOk ==
    /\ At("buy_cancel")
    /\ order' = IF order = "open" THEN "cancelled" ELSE order
    /\ Goto("buy_market")
    /\ log' = Append(log, "cancel")
    /\ UNCHANGED <<clock, filled, fn_ok_at, call, tp, sell, buy, sent>>

(* Variant: the market buy asks for the buffered total. *)
MarketNotional_safe_total(b) == PriceOf(SafeTotal(PriceDecimals, b.min_total))

(* Line 131: the notional of the fallback market buy. *)
MarketNotional(b) == b.amount

(* Lines 131-135: the market buy is accepted, then time.sleep(10). *)
BuyMarketOk ==
    /\ At("buy_market")
    /\ sent' = [kind |-> "market", price |-> 0, volume |-> <<>>,
                notional |-> MarketNotional(buy)]
    /\ Goto("buy_result")
    /\ log' = log \o <<"market", "sleep10">>
    /\ UNCHANGED <<clock, filled, fn_ok_at, call, tp, sell, buy, order>>

(* Lines 136-139: bithumb.get_order(new_uuid) answers. *)
BuyResultOk ==
    /\ At("buy_result")
    /\ Goto("buy_reprice")
    /\ log' = Append(log, "result")
    /\ UNCHANGED <<clock, filled, fn_ok_at, call, tp, sell, buy, order, sent>>

(* Lines 140-143: the quote for the fill report; perform_buy returns. *)
BuyRepriceOk ==
    /\ At("buy_reprice")
    /\ buy' = NoBuy
    /\ Goto("sum_chance")
    /\ log' = Append(log, "reprice")
    /\ UNCHANGED <<clock, filled, fn_ok_at, call, tp, sell, order, sent>>

(* Lines 146-147: except around the order protocol; perform_buy returns. *)
BuyExcept ==
    /\ pc = "buy_except"
    /\ buy' = NoBuy
    /\ Goto("sum_chance")
    /\ UNCHANGED <<clock, filled, fn_ok_at, call, tp, sell, order, sent, log>>

----------------------------------------------------------------------------
(* trade_once lines 205-210: the summary.                                  *)

SumChanceOk ==
    /\ At("sum_chance")
    /\ Goto("sum_price")
    /\ log' = Append(log, "sum_chance")
    /\ UNCHANGED <<clock, filled, fn_ok_at, call, tp, sell, buy, order, sent>>

SumPriceOk ==
    /\ At("sum_price")
    /\ pc' = "run_next"
    /\ log' = Append(log, "sum_price")
    /\ UNCHANGED <<clock, filled, rt, fn_ok_at, call, tp, sell, buy, order, sent>>

----------------------------------------------------------------------------
(* The exchange fills the open limit order, at any time, wholly or in      *)
(* part; a partly filled order stays open (state 'wait').                  *)

(* What the exchange takes for the volume v of the round's limit order. *)
FillCost(v) == BMul(BFromInt(sent.price), v)

(* The parts of its volume an order is filled by: one FillParts-th. *)
FillParts == {2}

ExchangeFills ==
    /\ order = "open"
    /\ order' = "done"
    /\ filled' = FillCost(sent.volume)
    /\ UNCHANGED <<clock, pc, rt, fn_ok_at, call, tp, sell, buy, sent, log>>

ExchangeFillsPart ==
    /\ order = "open"
    /\ filled = <<>>
    /\ \E d \in FillParts : filled' = FillCost(BDivInt(sent.volume, d)[1])
    /\ UNCHANGED <<clock, pc, rt, fn_ok_at, call, tp, sell, buy, order, sent, log>>

Program ==
    \/ TradeOnce \/ RunExcept \/ NextSlot \/ CallFails
    \/ SellPriceOk \/ SellChanceOk \/ SellOrderOk \/ SellExcept
    \/ BuyPriceOk \/ BuyChanceOk \/ BuyLimitOk \/ BuyWait \/ BuyPollOk
    \/ BuyCancelOk \/ BuyMarketOk \/ BuyResultOk \/ BuyRepriceOk \/ BuyExcept
    \/ SumChanceOk \/ SumPriceOk

Next == Program \/ ExchangeFills \/ ExchangeFillsPart

Spec == Init /\ [][Next]_vars

(* The process is a single thread that keeps running. *)
FairSpec == Spec /\ WF_vars(Program)

----------------------------------------------------------------------------
(* retry on its own: any tries, delay and backoff, and an operation that   *)
(* raises on every call but its fn_ok_at-th.                               *)

InitRetry ==
    /\ pc = "retry"
    /\ \E t \in 1..MaxTries, d \in DelaySet, b \in BackoffSet :
         rt = RetryStart(t, d, b)
    /\ fn_ok_at \in 0..MaxTries
    /\ call = NoCall
    /\ tp = 0
    /\ sell = NoSell
    /\ buy = NoBuy
    /\ order = "none"
    /\ sent = NoOrder
    /\ log = <<>>
    /\ filled = <<>>
    /\ clock = NoClock

FnReturns ==
    /\ At("retry")
    /\ fn_ok_at = rt.calls + 1
    /\ rt' = RetryReturn(rt, "value")
    /\ UNCHANGED <<clock, filled, pc, fn_ok_at, call, tp, sell, buy, order, sent, log>>

FnRaises ==
    /\ At("retry")
    /\ fn_ok_at # rt.calls + 1
    /\ rt' = RetryExcept(rt)
    /\ UNCHANGED <<clock, filled, pc, fn_ok_at, call, tp, sell, buy, order, sent, log>>

NextRetry == FnReturns \/ FnRaises

SpecRetry == InitRetry /\ [][NextRetry]_vars

----------------------------------------------------------------------------
(* The arithmetic helpers on their own: one call at a time, with arguments *)
(* drawn from the sets below, its result kept in call.out.                 *)

(* Prices around every breakpoint of the tick table. *)
Breakpoints == {KRW(1), KRW(10), KRW(100), KRW(1000), KRW(10000), KRW(100000),
                KRW(500000), KRW(1000000), KRW(2000000)}
UnitPriceSet ==
    {0, 1, 999, 50000, KRW(2100000)}
        \cup Breakpoints \cup {b - 1 : b \in Breakpoints}
        \cup {b + 1 : b \in Breakpoints}

(* Values and units for round_down, in 0.001 KRW. *)
RoundXSet == (10080 .. 10120) \cup {0, 1, 499, 7000, 49900, 50000, 99999,
                                    KRW(251), KRW(2995) + 500, KRW(2999)}
RoundUnitSet == {0, 1, 10, 100, KRW(1), KRW(5)}

(* 5010 / 25600 = 0.195703125 lies halfway between two quantities. *)
MinTotalSet == {KRW(1000), KRW(5000), KRW(5000) + 500, KRW(5010)}
QuotePriceSet ==
    PriceSet \cup {-KRW(1), 0, 1, KRW(7), KRW(50), KRW(25600), KRW(99999)}

AvgSet == {-KRW(1), 0, KRW(100), 249900}
CurSet == {KRW(90), KRW(94), KRW(95), KRW(97) + 500, KRW(99), KRW(100) - 1,
           KRW(100), KRW(101), 237404, 237405, 247401, 249899, 252601}
FeeSet == {0, FEE_RATE_E4, 25, 5000, 9999}

(* The quote of effective_pnl_pct is the float of a price of CurSet or the *)
(* next float above it.                                                    *)
UlpSet == {0, 1}

(* Quotes and averages for the sizing: those above, a drawdown of exactly  *)
(* 5 % that computes to 4.999999999999993 (0.057 under 0.06), and an       *)
(* amount that computes just above 5000.5 (199.999 under 200).             *)
SizeCurSet == CurSet \cup {57, KRW(200) - 1}
SizeAvgSet == AvgSet \cup {60, KRW(200)}

(* Quotes in whole KRW above the range of the price grid: of the order of  *)
(* the default ticker's, one below 2 * 10^9 KRW and one above, where half  *)
(* a quantity step (0.5 * 10^-8 coins) is worth more than 10 KRW.          *)
HighQuoteSet == {150000000, 1992048000, 2083246000}

(* The inputs of the limit order <<dec, quote, amount, min_total>>: the    *)
(* quotes of a round on the price grid and the quotes above in whole KRW,  *)
(* with the amount at the whole minimum (5000 at least) or at twice the    *)
(* base.                                                                   *)
OrderInputs ==
    {<<PriceDecimals, p, a, m>> :
        p \in PriceSet,
        a \in {KRW(BASE_AMOUNT), KRW(6000), KRW(8182), KRW(2 * BASE_AMOUNT)},
        m \in {KRW(5000), KRW(5000) + 500, KRW(6000), 8182935}}
    \cup {<<0, q, a, m>> :
            q \in HighQuoteSet,
            a \in {BASE_AMOUNT, 6000, 2 * BASE_AMOUNT},
            m \in {5000, 6000}}

InitCalc ==
    /\ pc = "calc"
    /\ rt = Idle
    /\ fn_ok_at = 0
    /\ call = NoCall
    /\ tp = 0
    /\ sell = NoSell
    /\ buy = NoBuy
    /\ order = "none"
    /\ sent = NoOrder
    /\ log = <<>>
    /\ filled = <<>>
    /\ clock = NoClock

Called(fn, args, out) ==
    /\ call' = [fn |-> fn, args |-> args, out |-> out]
    /\ UNCHANGED <<clock, filled, pc, rt, fn_ok_at, tp, sell, buy, order, sent, log>>

CallGetOrderUnit ==
    /\ pc = "calc"
    /\ call = NoCall
    /\ \E p \in UnitPriceSet :
             Called("get_order_unit", <<p>>, get_order_unit(PriceDecimals, p))

CallRoundDown ==
    /\ pc = "calc"
    /\ call = NoCall
    /\ \E x \in RoundXSet, unit \in RoundUnitSet :
             Called("round_down", <<x, unit>>,
                    PriceOf(round_down(FPrice(x), FPrice(unit))))

CallMinVolume ==
    /\ pc = "calc"
    /\ call = NoCall
    /\ \E m \in MinTotalSet, p \in QuotePriceSet :
             Called("min_volume_for_krw", <<m, p>>, min_volume_for_krw(m, p))

CallPnl ==
    /\ pc = "calc"
    /\ call = NoCall
    /\ \E cur \in CurSet, avg \in AvgSet, fee \in FeeSet, u \in UlpSet :
             Called("effective_pnl_pct", <<cur, avg, fee, u>>,
                    effective_pnl_pct(FUlps(FPrice(cur), u), avg, fee))

CallScaledAmount ==
    /\ pc = "calc"
    /\ call = NoCall
    /\ \E cur \in SizeCurSet, avg \in SizeAvgSet, coin \in {<<>>, Coins(1)} :
             Called("ScaledAmount", <<cur, avg, coin>>, ScaledAmount(cur, avg, coin))

CallLimitOrder ==
    /\ pc = "calc"
    /\ call = NoCall
    /\ \E k \in OrderInputs :
             Called("LimitOrder", k, LimitOrder(k[1], k[2], k[3], k[4]))

CalcReturn ==
    /\ pc = "calc"
    /\ call # NoCall
    /\ call' = NoCall
    /\ UNCHANGED <<clock, filled, pc, rt, fn_ok_at, tp, sell, buy, order, sent, log>>

NextCalc ==
    \/ CallGetOrderUnit \/ CallRoundDown \/ CallMinVolume \/ CallPnl
    \/ CallScaledAmount \/ CallLimitOrder \/ CalcReturn

SpecCalc == InitCalc /\ [][NextCalc]_vars

----------------------------------------------------------------------------
(* run.py on its own: the clock and the slots of the scheduler.  Times are *)
(* counted in half seconds, the longest single sleep of sleep_until_epoch. *)
(* time.time() never goes back; a round, returned or raised, takes time.   *)

TimeScale == 2              \* clock ticks per second: one tick is 0.5 s
SLOT_SECONDS == 3600        \* run.py: next_run += 3600.0
Slot == SLOT_SECONDS * TimeScale

MaxSlots == 4               \* the scheduler is followed up to this slot

(* When the process is launched, how long a round takes (a second, the     *)
(* five-minute wait and more, a slot to the tick, a tick more, more than   *)
(* two slots), and how late the last sleep of a wait may end.              *)
AnchorSet == {0, 2469}
DurSet == {2, 620, Slot - 1, Slot, Slot + 1, 2 * Slot + 600}
LateSet == {0, 1, Slot + 100}

(* Variant: the missed slots are not skipped. *)
NextRun_no_skip(next_run, now) == next_run + Slot

(* Lines 55-56: while next_run <= now: next_run += 3600.0 *)
RECURSIVE SkipMissed(_, _)
SkipMissed(next_run, now) ==
    IF next_run <= now THEN SkipMissed(next_run + Slot, now) ELSE next_run

(* Lines 50-56: the next slot after the round, given the time read at 54. *)
NextRun(next_run, now) == SkipMissed(next_run + Slot, now)

(* Lines 21-31: the time at which sleep_until_epoch(target) returns when   *)
(* entered at now: at once if nothing remains, else after sleeps of at     *)
(* most a tick each, the last of which ends late ticks after the target.   *)
sleep_until_epoch(target_epoch, now, late) ==
    IF target_epoch - now <= 0 THEN now ELSE target_epoch + late

InitSched ==
    /\ pc = "sched_first"
    /\ rt = Idle
    /\ fn_ok_at = 0
    /\ call = NoCall
    /\ tp = 0
    /\ sell = NoSell
    /\ buy = NoBuy
    /\ order = "none"
    /\ sent = NoOrder
    /\ log = <<>>
    /\ filled = <<>>
    /\ \E a \in AnchorSet :
         clock = [anchor |-> a, next_run |-> a, now |-> a, read |-> a,
                  starts |-> <<>>]

(* Lines 37-41: the wait before the first round, which is over at once. *)
SchedFirstWait ==
    /\ pc = "sched_first"
    /\ pc' = "sched_round"
    /\ \E late \in LateSet :
         LET t == sleep_until_epoch(clock.next_run, clock.now, late)
         IN  clock' = [clock EXCEPT !.now = t, !.starts = Append(@, t)]
    /\ UNCHANGED <<rt, fn_ok_at, call, tp, sell, buy, order, sent, log, filled>>

(* Lines 44-47: trade_once returns or raises, after some time. *)
SchedRound ==
    /\ pc = "sched_round"
    /\ pc' = "sched_next"
    /\ \E d \in DurSet : clock' = [clock EXCEPT !.now = @ + d]
    /\ UNCHANGED <<rt, fn_ok_at, call, tp, sell, buy, order, sent, log, filled>>

(* Lines 50-56: the next slot, past the time read at line 54. *)
SchedNextRun ==
    /\ pc = "sched_next"
    /\ pc' = "sched_wait"
    /\ clock' = [clock EXCEPT !.read = clock.now,
                              !.next_run = NextRun(@, clock.now)]
    /\ UNCHANGED <<rt, fn_ok_at, call, tp, sell, buy, order, sent, log, filled>>

(* Line 58: the wait for the slot; the next round starts when it is over. *)
SchedWait ==
    /\ pc = "sched_wait"
    /\ clock.next_run <= clock.anchor + MaxSlots * Slot
    /\ pc' = "sched_round"
    /\ \E late \in LateSet :
         LET t == sleep_until_epoch(clock.next_run, clock.now, late)
         IN  clock' = [clock EXCEPT !.now = t, !.starts = Append(@, t)]
    /\ UNCHANGED <<rt, fn_ok_at, call, tp, sell, buy, order, sent, log, filled>>

NextSched == SchedFirstWait \/ SchedRound \/ SchedNextRun \/ SchedWait

SpecSched == InitSched /\ [][NextSched]_vars

----------------------------------------------------------------------------
(* Properties.                                                             *)

Count(e) == Cardinality({i \in DOMAIN log : log[i] = e})
Before(i, e) == i > 1 /\ log[i - 1] = e
Polls == {"poll_done", "poll_open"}

RECURSIVE Pow(_, _)
Pow(b, n) == IF n = 0 THEN 1 ELSE b * Pow(b, n - 1)

(* krw / price rounded half to even to 8 decimals, in exact arithmetic:    *)
(* the quantity in 10^-8 coins nearest to the quotient.                    *)
ExactQty(krw, price) == BDivRound(Notional(krw), price)

(* The order of two floats with signs: -1, 0, 1. *)
SCmp(s, t) ==
    IF s.sign # t.sign THEN (IF s.sign < t.sign THEN -1 ELSE 1)
    ELSE IF s.sign = 1 THEN FCmp(s.abs, t.abs)
    ELSE IF s.sign = -1 THEN FCmp(t.abs, s.abs)
    ELSE 0

(* The limit buy of the round is about to be submitted or was accepted. *)
LimitSubmitted ==
    pc \in {"buy_limit", "buy_wait", "buy_poll", "buy_cancel", "buy_market",
            "buy_result", "buy_reprice"}

(* C1.  In every round the limit buy comes first, then the 5-minute wait,  *)
(* then the status poll; a poll that reports 'done' is followed by no      *)
(* cancel and no market buy; a poll that reports anything else is followed *)
(* by the cancel call and, only after the cancel succeeded, by one market  *)
(* buy.  No round has two accepted limit buys or two accepted market buys. *)
C1_Order ==
    /\ Count("limit") <= 1
    /\ Count("market") <= 1
    /\ \A i \in DOMAIN log :
         /\ log[i] = "sleep300" => Before(i, "limit")
         /\ log[i] \in Polls => Before(i, "sleep300")
         /\ log[i] = "cancel" => Before(i, "poll_open")
         /\ log[i] = "market" => Before(i, "cancel")
    /\ Count("poll_done") > 0 => Count("cancel") = 0 /\ Count("market") = 0
    /\ pc \in {"buy_cancel", "buy_market"} => Count("poll_open") = 1
    /\ pc = "buy_market" => Count("cancel") = 1

C1_Step ==
    /\ log' = Append(log, "poll_open") => pc' = "buy_cancel"
    /\ log' = Append(log, "poll_done") => pc' = "sum_chance"
    /\ log' = Append(log, "cancel") => pc' = "buy_market"

C1_BuyProtocol == [][C1_Step]_vars /\ []C1_Order

C1_Witness ==
    /\ pc = "buy_result"
    /\ order = "cancelled"
    /\ log = <<"sell_price", "sell_chance", "buy_price", "buy_chance", "limit",
               "sleep300", "poll_open", "cancel", "market", "sleep10">>


(* C2.  Whenever the fallback market buy is submitted, its notional is the *)
(* round's sized amount, also when the limit quantity carries the +10      *)
(* buffer.                                                                 *)
C2_MarketNotional ==
    (sent.kind = "market" /\ pc \in {"buy_result", "buy_reprice", "buy_except"})
        => /\ sent.notional = buy.amount
           /\ buy.amount % PriceScale = 0

C2_Witness ==
    /\ pc = "buy_result"
    /\ sent.kind = "market"
    /\ buy.volume = ExactQty(buy.min_total + KRW(SAFETY_KRW), buy.price)
    /\ buy.volume # ExactQty(buy.amount, buy.price)

(* C3.  Whatever exchange call of a round fails for good, the loop of      *)
(* run.py goes on: trade_once is called again.                             *)
C3_LoopSurvives == (rt.status = "raised") ~> (pc = "sell_price" /\ log = <<>>)

C3_Witness ==
    /\ pc = "run_except"
    /\ rt.status = "raised"
    /\ rt.calls = DefaultTries

(* C4.  Every exchange call of a round is retried: one failure of a call   *)
(* does not fail the step.                                                 *)
C4_EveryCallRetried ==
    rt.status = "raised" => rt.calls = DefaultTries /\ rt.result = "RetryError"


(* The sleeps of a retry call so far are delay, delay * backoff, ... *)
SleptGeometric ==
    \A i \in DOMAIN rt.slept : rt.slept[i] = rt.delay0 * Pow(rt.backoff, i - 1)

(* C5.  An operation that raises on its first k-1 calls and returns on the *)
(* k-th, 1 <= k <= tries: retry returns its value after exactly k calls    *)
(* and k-1 sleeps, the i-th lasting delay * backoff^(i-1); it raises       *)
(* nothing, and after the value it neither sleeps nor calls again.         *)
C5_RetrySuccess ==
    (pc = "retry" /\ fn_ok_at \in 1..rt.tries)
        => /\ rt.status # "raised"
           /\ rt.raised = 0
           /\ SleptGeometric
           /\ rt.status = "running"
                => rt.calls < fn_ok_at /\ Len(rt.slept) = rt.calls
           /\ rt.status = "returned"
                => /\ rt.result = "value"
                   /\ rt.calls = fn_ok_at
                   /\ Len(rt.slept) = fn_ok_at - 1

C5_Witness ==
    /\ pc = "retry"
    /\ rt.status = "returned"
    /\ fn_ok_at = 3
    /\ rt.tries = 3
    /\ rt.slept = <<500, 1000>>

(* C6.  An operation that raises on every call: retry calls it exactly     *)
(* tries times, sleeps exactly tries-1 times (not after the last attempt)  *)
(* and raises RetryError once, carrying the last failure; it returns no    *)
(* value.                                                                  *)
C6_RetryExhaustion ==
    (pc = "retry" /\ (fn_ok_at = 0 \/ fn_ok_at > rt.tries))
        => /\ rt.status # "returned"
           /\ rt.calls <= rt.tries
           /\ rt.status = "running"
                => rt.calls < rt.tries /\ rt.raised = 0 /\ Len(rt.slept) = rt.calls
           /\ rt.status = "raised"
                => /\ rt.calls = rt.tries
                   /\ Len(rt.slept) = rt.tries - 1
                   /\ rt.raised = 1
                   /\ rt.result = "RetryError"
                   /\ rt.last_err = rt.tries

C6_Witness ==
    /\ pc = "retry"
    /\ rt.status = "raised"
    /\ fn_ok_at = 0
    /\ rt.tries = 3
    /\ Len(rt.slept) = 2


(* C7.  Whenever a limit buy is submitted the sized amount is a whole      *)
(* number of KRW, at least the bid-side minimum notional and at most the   *)
(* available KRW; with a balance below the minimum no order is placed.     *)
C7_AmountBounds ==
    LimitSubmitted
        => /\ buy.amount % PriceScale = 0
           /\ buy.amount >= buy.min_total
           /\ buy.amount <= buy.krw_avail
           /\ buy.krw_avail >= buy.min_total

(* The helper called is name; its arguments and result are in call. *)
Fn(name) == pc = "calc" /\ call.fn = name

(* The order a call of LimitOrder returned: price * quantity, and the     *)
(* minimum of the call, both in 10^-dec KRW * 10^-8 coins.                 *)
OrderWorth == BMul(BFromInt(call.out.price), call.out.volume)
OrderMin == Notional(call.args[4])

(* Half a quantity step at the quote is worth less than the 10 KRW of the  *)
(* buffer: quote * 0.5 * 10^-8 < 10, for a quote in 10^-dec KRW; that is,  *)
(* the quote is below 2 * 10^9 KRW.                                        *)
MarginCovers(dec, quote) ==
    BLt(BMul(<<5>>, BFromInt(quote)),
        BShift(BFromInt(SAFETY_KRW), dec + VOLUME_DECIMALS + 1))

C9_OneTickBelow ==
    LimitSubmitted
        => LET tick == get_order_unit(PriceDecimals, buy.cur_price)
           IN  /\ buy.price = LimitPriceOf(buy.cur_price)
               /\ buy.price % tick = 0
               /\ buy.price <= buy.cur_price - tick

(* The limit prices, amounts and minimums <<lp, amount, min_total>> of the *)
(* rounds whose notional lp * round(amount / lp, 8), as the program        *)
(* computes it in lines 99-100, is below min_total.                        *)
C9_ComputedLow ==
    {k \in {<<LimitPriceOf(p), SizeOf(p, c).amount, c.bid_min>> :
                p \in PriceSet, c \in ChanceSet} :
        FLt(FMul(FPrice(k[1]), FQty(LimitQty(PriceDecimals, k[2], k[1]))),
            FPrice(k[3]))}

(* C9 amended.  Every limit buy submitted is priced at                     *)
(* round_down(cur - tick, tick), a multiple of tick that is at most        *)
(* cur - tick, unless the notional computed at that price is below the     *)
(* minimum notional: then it is priced at the quote itself.                *)
C9_OneTickBelowOrQuote ==
    LimitSubmitted
        => LET tick == get_order_unit(PriceDecimals, buy.cur_price)
               lp   == LimitPriceOf(buy.cur_price)
               low  == <<lp, buy.amount, buy.min_total>> \in C9_ComputedLow
           IN  IF low
               THEN buy.price = buy.cur_price
               ELSE /\ buy.price = lp
                    /\ buy.price % tick = 0
                    /\ buy.price <= buy.cur_price - tick

C9_Witness ==
    /\ pc = "buy_wait"
    /\ sent.kind = "limit"
    /\ buy.cur_price = 252601
    /\ sent.price = KRW(251)

(* The fee-adjusted PnL in exact arithmetic against the target,            *)
(* (cur*(1-fee) - avg*(1+fee)) / (avg*(1+fee)) * 100 against t / TpScale,  *)
(* cleared of its denominators: -1, 0, 1.                                  *)
PnlCmp(cur, avg, t) ==
    BCmp(BMul(BMul(BFromInt(cur), BFromInt(10000 - FEE_RATE_E4)),
              BFromInt(100 * TpScale)),
         BMul(BMul(BFromInt(avg), BFromInt(10000 + FEE_RATE_E4)),
              BFromInt(100 * TpScale + t)))

(* effective_pnl_pct(cur, avg, 0.0004) against t / TpScale, on the value   *)
(* the function returns: -1, 0, 1; and whether it is >= t / TpScale.       *)
PnlAgainst(cur, avg, t) ==
    SCmp(effective_pnl_pct(FPrice(cur), avg, FEE_RATE_E4), Signed(1, FTarget(t)))
PnlAtLeast(cur, avg, t) == PnlAgainst(cur, avg, t) >= 0

(* A tenth of the balance is worth the minimum, or the minimum quantity    *)
(* is within the balance.                                                  *)
SellFeasible(cur, balance, min_total) ==
    \/ BLe(Notional(min_total), BMul(BFromInt(cur), BDivRound(balance, 10)))
    \/ BLe(BDivRound(Notional(min_total), cur), balance)

SellConditions ==
    /\ sell.balance # <<>>
    /\ sell.avg > 0
    /\ PnlAtLeast(sell.cur_price, sell.avg, tp)

(* C10.  perform_sell submits a market sell only with a balance > 0, an    *)
(* average price > 0 and effective_pnl_pct(quote, average, 0.0004) >= the  *)
(* target; and with these three and a feasible minimum-notional correction *)
(* it does submit one (a PnL equal to the target sells).                   *)
C10_SellTrigger ==
    /\ pc = "sell_order" => SellConditions
    /\ \A i \in DOMAIN log : log[i] = "sell" => Before(i, "sell_chance")
    /\ sent.kind = "sell" => Count("sell") = 1
    /\ (pc = "buy_price" /\ log # <<>> /\ log[Len(log)] = "sell_chance")
          => ~(SellConditions
               /\ SellFeasible(sell.cur_price, sell.balance, sell.min_total))

C10_Witness ==
    /\ pc = "sell_order"
    /\ SellConditions
    /\ PnlAgainst(sell.cur_price, sell.avg, tp) = 0
    /\ PnlCmp(sell.cur_price, sell.avg, tp) = 0

(* A tenth of the balance, the minimum-notional quantity, and whether the  *)
(* tenth is worth less than the minimum, from what perform_sell read.      *)
SellTenth == BDivRound(sell.balance, 10)
SellMinQty == BDivRound(Notional(sell.min_total), sell.cur_price)
SellTenthLow ==
    BLt(BMul(BFromInt(sell.cur_price), SellTenth), Notional(sell.min_total))

(* The quantities of 8 decimals nearest to a tenth of the balance b: one,  *)
(* or the two on either side of a tenth that lies halfway between them.    *)
Tenths(b) ==
    {t \in {BDivInt(b, 10)[1], BAdd(BDivInt(b, 10)[1], <<1>>)} :
        /\ BLe(BMul(t, BFromInt(10)), BAdd(b, <<5>>))
        /\ BLe(b, BAdd(BMul(t, BFromInt(10)), <<5>>))}

(* v is a quantity of 8 decimals nearest to min_total / price. *)
IsMinQty(v, min_total, price) ==
    /\ BLe(BMul(<<2>>, BMul(BFromInt(price), v)),
           BAdd(BMul(<<2>>, Notional(min_total)), BFromInt(price)))
    /\ BLe(BMul(<<2>>, Notional(min_total)),
           BAdd(BMul(<<2>>, BMul(BFromInt(price), v)), BFromInt(price)))

SellSubmitted ==
    \/ pc = "sell_order"
    \/ pc = "buy_price" /\ sent.kind = "sell"

(* C11.  Every market sell submitted asks for a tenth of the balance       *)
(* rounded to 8 decimals, or, when the tenth is worth less than the        *)
(* minimum notional, for the minimum-notional quantity; the quantity is    *)
(* never above the balance, so with a minimum-notional quantity above the  *)
(* balance nothing is sold.                                                *)
C11_NoOverSell ==
    SellSubmitted
        => /\ \E t \in Tenths(sell.balance) :
                 IF BLt(BMul(BFromInt(sell.cur_price), t),
                        Notional(sell.min_total))
                 THEN IsMinQty(sell.volume, sell.min_total, sell.cur_price)
                 ELSE sell.volume = t
           /\ BLe(sell.volume, sell.balance)
           /\ sent.kind = "sell" => sent.volume = sell.volume

C11_Witness ==
    /\ pc = "buy_price"
    /\ sent.kind = "sell"
    /\ SellTenthLow
    /\ sent.volume = SellMinQty
    /\ BLt(SellTenth, sent.volume)

(* C12.  Every market sell submitted has quantity * quote >= the ask-side  *)
(* minimum notional, also when the quantity was raised to                  *)
(* min_volume_for_krw(min_total, cur_price).                               *)
C12_SellNotional ==
    SellSubmitted
        => BLe(Notional(sell.min_total),
               BMul(BFromInt(sell.cur_price), sell.volume))

(* The amount of the claim for a drawdown d in per cent, computed as the   *)
(* program computes: base * (1 + min(max(d, 0), 5) / 5).                   *)
C13_Amount(d) ==
    FMul(FBase,
         FAdd(F1, FDiv(IF FLt(FCap, d) THEN FCap
                       ELSE IF FLt(FZero, d) THEN d ELSE FZero,
                       FCap)))

(* The drawdown of cur under avg > cur is p per cent or more, and is p per *)
(* cent, in exact arithmetic.                                              *)
DrawdownAtLeast(cur, avg, p) == 100 * (avg - cur) >= p * avg
DrawdownIs(cur, avg, p) == 100 * (avg - cur) = p * avg

F2Base == FNat(LFromInt(2 * BASE_AMOUNT))
F12Base == FNat(LFromInt((12 * BASE_AMOUNT) \div 10))

(* C13 as claimed.  Before the minimum and balance corrections the buy     *)
(* amount is the base when the ask-side balance is 0, the average price is *)
(* <= 0 or the quote is >= the average; otherwise it is                    *)
(* base * (1 + min(max(d, 0), 5) / 5) with d = (avg - cur) / avg * 100.    *)
(* So it lies in [base, 2 base], is 2 base at a drawdown of 5 % or more    *)
(* and 1.2 base at a drawdown of 1 %.                                      *)
C13_Multiplier ==
    Fn("ScaledAmount")
        => LET cur  == call.args[1]
               avg  == call.args[2]
               coin == call.args[3]
           IN  /\ FLe(FBase, call.out)
               /\ FLe(call.out, F2Base)
               /\ IF coin = <<>> \/ avg <= 0 \/ cur >= avg
                  THEN call.out = FBase
                  ELSE /\ call.out = C13_Amount(DiffPct(FPrice(cur), FPrice(avg)))
                       /\ DrawdownAtLeast(cur, avg, DIFF_CAP_PCT)
                            => call.out = F2Base
                       /\ DrawdownIs(cur, avg, 1) => call.out = F12Base

(* C13 amended.  The amount of line 80 is the base when the ask-side       *)
(* balance is 0, the average price is <= 0 or the quote is >= the average, *)
(* and otherwise the float value of base * (1 + min(max(d, 0), 5) / 5); it *)
(* lies in [base, 2 base].  Rounded to whole units by line 83 it is 2 base *)
(* at a drawdown of 5 % or more and 1.2 base at a drawdown of 1 %.         *)
C13_MultiplierRounded ==
    Fn("ScaledAmount")
        => LET cur  == call.args[1]
               avg  == call.args[2]
               coin == call.args[3]
           IN  /\ FLe(FBase, call.out)
               /\ FLe(call.out, F2Base)
               /\ IF coin = <<>> \/ avg <= 0 \/ cur >= avg
                  THEN call.out = FBase
                  ELSE /\ call.out = C13_Amount(DiffPct(FPrice(cur), FPrice(avg)))
                       /\ DrawdownAtLeast(cur, avg, DIFF_CAP_PCT)
                            => RoundKRW(call.out) = KRW(2 * BASE_AMOUNT)
                       /\ DrawdownIs(cur, avg, 1)
                            => RoundKRW(call.out) = KRW((12 * BASE_AMOUNT) \div 10)

C13_Witness ==
    /\ Fn("ScaledAmount")
    /\ call.args = <<247401, 249900, Coins(1)>>
    /\ DrawdownIs(247401, 249900, 1)
    /\ FLt(call.out, F12Base)
    /\ RoundKRW(call.out) = KRW((12 * BASE_AMOUNT) \div 10)

(* The tick table of the claim: lower bound and tick, in 0.001 KRW, from   *)
(* the top row down; below the last bound the tick is 0.001.               *)
TickRows == <<
    <<KRW(2000000), KRW(1000)>>, <<KRW(1000000), KRW(500)>>,
    <<KRW(500000), KRW(100)>>, <<KRW(100000), KRW(50)>>,
    <<KRW(10000), KRW(10)>>, <<KRW(1000), KRW(5)>>, <<KRW(100), KRW(1)>>,
    <<KRW(10), 100>>, <<KRW(1), 10>>>>

(* C14.  get_order_unit returns the tick of the first row of the table     *)
(* whose lower bound is <= the price (bounds inclusive), and 0.001 when no *)
(* row matches.                                                            *)
C14_TickTable ==
    Fn("get_order_unit")
        => LET price == call.args[1]
               hits  == {i \in DOMAIN TickRows : price >= TickRows[i][1]}
           IN  IF hits = {}
               THEN call.out = 1
               ELSE \E i \in hits :
                      /\ \A j \in hits : i <= j
                      /\ call.out = TickRows[i][2]

C14_Witness ==
    /\ Fn("get_order_unit")
    /\ call.args = <<KRW(10000)>>
    /\ call.out = KRW(10)

(* C15.  round_down(x, unit) with unit > 0 is a multiple of unit, is      *)
(* <= x and is > x - unit: the largest multiple of unit not above x; and   *)
(* round_down(x, 0) = x.                                                   *)
C15_RoundDown ==
    Fn("round_down")
        => LET x    == call.args[1]
               unit == call.args[2]
           IN  IF unit = 0
               THEN call.out = x
               ELSE /\ call.out % unit = 0
                    /\ call.out <= x
                    /\ call.out > x - unit

(* The product price * quantity against the minimum, for a call of         *)
(* min_volume_for_krw(min_total_krw, price).                               *)
MinVolProduct == BMul(BFromInt(call.args[2]), call.out)

(* C16 as claimed.  For price > 0, min_volume_for_krw(m, price) * price    *)
(* >= m; for price <= 0 the result is 0.                                   *)
C16_MinVolume ==
    Fn("min_volume_for_krw")
        => IF call.args[2] <= 0
           THEN call.out = <<>>
           ELSE BLe(Notional(call.args[1]), MinVolProduct)

(* C16 amended.  For price > 0 the product is within half a quantity step  *)
(* (0.5 * 10^-8 coins) times the price of m, below or above:               *)
(* |quantity * price - m| <= price * 0.5 * 10^-8; for price <= 0 the       *)
(* result is 0.                                                            *)
C16_MinVolumeWithinRounding ==
    Fn("min_volume_for_krw")
        => IF call.args[2] <= 0
           THEN call.out = <<>>
           ELSE LET m2 == BMul(<<2>>, Notional(call.args[1]))
                    p2 == BMul(<<2>>, MinVolProduct)
                    h  == BFromInt(call.args[2])
                IN  BLe(m2, BAdd(p2, h)) /\ BLe(p2, BAdd(m2, h))

C16_Witness ==
    /\ Fn("min_volume_for_krw")
    /\ call.args = <<KRW(5000), KRW(3004)>>
    /\ call.out = BFromInt(166444740)
    /\ BLt(MinVolProduct, Notional(KRW(5000)))

(* The formula of the claim for the floats of the quote cur, the average   *)
(* avg and the fee: ((cur*(1-fee) - avg*(1+fee)) / (avg*(1+fee))) * 100.   *)
C17_Formula(cur, avg, fee) ==
    The({IF FLt(net, cost)
         THEN Signed(-1, FMul(FDiv(FSub(cost, net), cost), F100))
         ELSE Signed(1, FMul(FDiv(FSub(net, cost), cost), F100)) :
            net \in {FMul(cur, FSub(F1, fee))},
            cost \in {FMul(avg, FAdd(F1, fee))}})

(* The quotes of CurSet next to cur, above and below. *)
C17_Above(cur) ==
    {p \in CurSet : p > cur /\ \A q \in CurSet : q > cur => p <= q}
C17_Below(cur) ==
    {p \in CurSet : p < cur /\ \A q \in CurSet : q < cur => q <= p}

(* effective_pnl_pct at the float u units in the last place above cur. *)
C17_At(cur, u, avg, fee) == effective_pnl_pct(FUlps(FPrice(cur), u), avg, fee)

(* The result out equals the formula. *)
C17_IsFormula(cur, u, avg, fee, out) ==
    out = C17_Formula(FUlps(FPrice(cur), u), FPrice(avg), FFee(fee))

(* The result out lies between the results at the quotes next to cur in    *)
(* CurSet, strictly for gap = 0 and possibly equal to them for gap = 1.    *)
C17_Between(cur, avg, fee, out, gap) ==
    /\ \A p2 \in C17_Above(cur) : SCmp(out, C17_At(p2, 0, avg, fee)) < gap
    /\ \A p2 \in C17_Below(cur) : SCmp(C17_At(p2, 0, avg, fee), out) < gap

(* C17 as claimed.  For avg_price > 0 and a fee in [0, 1),                 *)
(* effective_pnl_pct is                                                    *)
(* (cur * (1 - fee) - avg * (1 + fee)) / (avg * (1 + fee)) * 100 and is    *)
(* strictly increasing in the current price, also from a float to the next *)
(* one; for avg_price <= 0 it is 0.                                        *)
C17_PnlStrict ==
    Fn("effective_pnl_pct")
        => LET cur == call.args[1]
               avg == call.args[2]
               fee == call.args[3]
               u   == call.args[4]
           IN  IF avg <= 0
               THEN call.out = SZero
               ELSE /\ C17_IsFormula(cur, u, avg, fee, call.out)
                    /\ C17_Between(cur, avg, fee, call.out, 0)
                    /\ u = 0 => SCmp(call.out, C17_At(cur, 1, avg, fee)) < 0

(* C17 amended.  For avg_price > 0 and a fee in [0, 1), effective_pnl_pct  *)
(* is the float value of                                                   *)
(* (cur * (1 - fee) - avg * (1 + fee)) / (avg * (1 + fee)) * 100 and never *)
(* decreases as the current price increases; for avg_price <= 0 it is 0.   *)
C17_Pnl ==
    Fn("effective_pnl_pct")
        => LET cur == call.args[1]
               avg == call.args[2]
               fee == call.args[3]
               u   == call.args[4]
           IN  IF avg <= 0
               THEN call.out = SZero
               ELSE /\ C17_IsFormula(cur, u, avg, fee, call.out)
                    /\ C17_Between(cur, avg, fee, call.out, 1)
                    /\ u = 0 => SCmp(call.out, C17_At(cur, 1, avg, fee)) <= 0

C17_Witness ==
    /\ Fn("effective_pnl_pct")
    /\ call.args = <<KRW(90), 249900, FEE_RATE_E4, 0>>
    /\ call.out = C17_At(KRW(90), 1, 249900, FEE_RATE_E4)
    /\ SCmp(call.out, C17_At(KRW(90) + 1, 0, 249900, FEE_RATE_E4)) < 0

(* The round is over: trade_once has returned or raised. *)
RoundOver == pc \in {"run_next", "run_loop"} /\ log # <<>>

(* C18.  When a round that placed a limit buy is over, that order is       *)
(* filled or cancelled, also when the status poll or the cancel call       *)
(* failed for good.                                                        *)
C18_NoOpenOrder ==
    (RoundOver /\ Count("limit") > 0) => order \in {"done", "cancelled"}

SellEntries == {"sell_price", "sell_chance", "sell"}
BuyEntries == {"buy_price", "buy_chance", "limit", "sleep300", "poll_done",
               "poll_open", "cancel", "market", "sleep10", "result", "reprice"}
RoundStart == pc = "sell_price" /\ log = <<>>

(* C19.  In a round every step of the sell decision comes before every     *)
(* step of the buy decision; the buy decision asks for its own quote and   *)
(* its own order chance, in this order, after the sell decision has ended, *)
(* and the quote it computes with is that answer, whatever the sell        *)
(* decision read; a round starts with nothing kept from the round before.  *)
C19_Freshness ==
    /\ \A i, j \in DOMAIN log :
         (i < j /\ log[i] \in BuyEntries) => log[j] \notin SellEntries
    /\ \A i \in DOMAIN log :
         /\ log[i] = "buy_price" => i > 1 /\ log[i - 1] \in {"sell_chance", "sell"}
         /\ log[i] = "buy_chance" => Before(i, "buy_price")
         /\ log[i] = "limit" => Before(i, "buy_chance")
    /\ pc \in {"sell_price", "sell_chance", "sell_order", "sell_except", "buy_price"}
         => buy = NoBuy
    /\ buy.cur_price = buy.quote
    /\ LimitSubmitted => sell = NoSell /\ buy.quote \in PriceSet
    /\ RoundStart => sell = NoSell /\ buy = NoBuy /\ sent = NoOrder /\ order = "none"

C19_Witness ==
    /\ pc = "buy_limit"
    /\ sent.kind = "sell"
    /\ sent.price # buy.cur_price
    /\ buy.cur_price = buy.quote

(* C20.  Rounds start again and again, for ever: after every round,        *)
(* however it ended, another round starts; and a round starts only from    *)
(* the loop, after trade_once has returned (the summary is done) or raised *)
(* (the except clause of the loop has run).                                *)
C20_Step ==
    /\ (pc' = "sell_price" /\ pc # "sell_price") => pc = "run_loop" /\ log' = <<>>
    /\ (pc' = "run_loop" /\ pc # "run_loop") => pc = "run_next"
    /\ (pc' = "run_next" /\ pc # "run_next") => pc \in {"sum_price", "run_except"}
    /\ log' = <<>> => log = <<>> \/ pc = "run_loop"

C20_Looping ==
    /\ [][C20_Step]_vars
    /\ []<>RoundStart

C20_Witness ==
    /\ pc = "run_loop"
    /\ log # <<>>
    /\ rt.status = "raised"
    /\ rt.result = "RetryError"

(* What the round's buy orders have cost so far: the filled part of the    *)
(* limit order and the market order, in price units * 10^-8.               *)
RoundSpent ==
    BAdd(filled, IF sent.kind = "market" THEN Notional(sent.notional) ELSE <<>>)

(* C22.  While perform_buy runs with its sized amount, the round's buy     *)
(* orders have cost no more than the amount plus the 10 KRW buffer,        *)
(* however the exchange filled the limit order between the steps.          *)
C22_NoDoubleBuy ==
    buy.amount > 0 => BLe(RoundSpent, Notional(buy.amount + KRW(SAFETY_KRW)))

(* C23.  Every limit buy submitted asks for no more than the quote         *)
(* currency available in the round: price * volume <= krw_avail, also when *)
(* the volume was computed again from min_total + 10.                      *)
C23_LimitWithinBalance ==
    (LimitSubmitted /\ sent.kind = "limit")
        => BLe(BMul(BFromInt(sent.price), sent.volume), Notional(buy.krw_avail))

(* A call of the sell decision raises for good: the quote, the order       *)
(* chance or the market sell has used up its tries.                        *)
SellFails ==
    /\ pc \in {"sell_price", "sell_chance", "sell_order"}
    /\ rt.status = "running"
    /\ rt'.status = "raised"

(* C24 as claimed.  Whichever call of the sell decision fails for good,    *)
(* the error is handled inside the round and perform_buy is entered next.  *)
C24_Step ==
    /\ SellFails => pc' = "sell_except"
    /\ pc = "sell_except" /\ pc' # pc => pc' = "buy_price"

C24_BuyAfterFailedSell == [][C24_Step]_vars

(* C24, amended.  When the market sell fails for good, the error is caught *)
(* in perform_sell and perform_buy is entered next; when the quote or the  *)
(* order chance of the sell decision fails for good, the error leaves      *)
(* trade_once, the loop's except clause handles it and the round ends      *)
(* without perform_buy.                                                    *)
C24_AmendedStep ==
    /\ SellFails => pc' = (IF pc = "sell_order" THEN "sell_except" ELSE "run_except")
    /\ pc = "sell_except" /\ pc' # pc => pc' = "buy_price"
    /\ pc = "run_except" /\ pc' # pc => pc' = "run_next" /\ log' = log
    /\ (pc = "run_except" /\ (log = <<>> \/ log[Len(log)] = "sell_price"))
         => \A i \in DOMAIN log : log[i] \notin BuyEntries

C24_BuyAfterFailedSellOrder == [][C24_AmendedStep]_vars

(* perform_buy has been entered after the market sell failed for good. *)
C24_Witness ==
    /\ pc = "buy_price"
    /\ log = <<"sell_price", "sell_chance">>
    /\ sell = NoSell
    /\ sent = NoOrder

(* The slot of a time: how many whole slots it is past the anchor. *)
SlotOf(t) == (t - clock.anchor) \div Slot

(* C21.  Whenever the loop starts waiting for the next round, next_run is  *)
(* the anchor plus a whole number N >= 1 of slots and is later than the    *)
(* time read after the round; a round starts no earlier than its slot, and *)
(* no two rounds start in the same slot, however long a round or the end   *)
(* of a wait took.                                                         *)
C21_Slots ==
    /\ pc = "sched_wait"
         => /\ clock.next_run >= clock.anchor + Slot
            /\ (clock.next_run - clock.anchor) % Slot = 0
            /\ clock.next_run > clock.read
    /\ (pc = "sched_round" /\ clock.starts # <<>>)
         => clock.starts[Len(clock.starts)] >= clock.next_run
    /\ \A i, j \in DOMAIN clock.starts :
         i < j => SlotOf(clock.starts[i]) < SlotOf(clock.starts[j])

(* A round overran two slots: the loop waits for the third slot after it. *)
C21_Witness ==
    /\ pc = "sched_wait"
    /\ Len(clock.starts) = 1
    /\ clock.read > clock.anchor + 2 * Slot
    /\ clock.next_run = clock.anchor + 3 * Slot

====
